---- MODULE Spec2Model ----
(***************************************************************************)
(* Model of tortools: TorHandler (src/torhandler.py) launching and killing *)
(* tor backends, and TorCrawler (src/torcrawler.py) draining the shared    *)
(* JoinableQueue of urls with one pycurl CurlMulti reactor per worker      *)
(* process.                                                                *)
(*                                                                         *)
(* Processes: the main process (constructor, load_urls, crawl), one        *)
(* crawler process per worker group, one killer process per backend, and   *)
(* the tor backends themselves.  launch() is one step of the main process: *)
(* it returns when all its launcher processes have exited, and nothing     *)
(* else reads what they write before it returns.                           *)
(* One action is one step of one process between two points where another  *)
(* process can observe or change shared state (the two JoinableQueues, the *)
(* backends).                                                              *)
(***************************************************************************)
EXTENDS Integers, Sequences, FiniteSets

(* ---------------------------------------------------------------- bounds *)
\* largest num_tor_instances handed to the constructor
MaxTor == 4
\* largest curlmulti_handles_per_process handed to the constructor
MaxHandles == 3
\* worker groups per crawl the model explores (configurations with more are left out)
MaxGroups == 2
\* length of the urls list of load_urls (100 in the source)
NumUrls == 2
\* calls of crawl() on one object
MaxCrawls == 2
\* tor launches that fail to start
MaxLaunchFailures == 1

\* the default of the constructors' base_socks_port
base_socks_port == 8000

Tasks == 1..NumUrls
MaxWorkers == MaxGroups * MaxCrawls

VARIABLES
    argN,           \* constructor argument num_tor_instances
    argK,           \* constructor argument curlmulti_handles_per_process
    mainpc,         \* where the main process is
    num_tor_instances,
    curlmulti_handles_per_process,
    num_urls,
    crawls,         \* crawl() calls that have returned
    urls_queue,     \* pending (url, filename) items, by ordinal
    filename,       \* ordinal -> the filename of the item load_urls put
    unfinished,     \* urls_queue._unfinished_tasks
    backend,        \* process_index -> state of the tor process on that port
    tor_queue,      \* tor_processes_queue: handles put and not yet got (the launchers
                    \* put in any order, so the order is not kept)
    tor_unfinished, \* tor_processes_queue._unfinished_tasks
    tor_closed,     \* the main process has closed tor_processes_queue
    tor_configs,    \* what the launcher processes have handed to tor so far
    killers,        \* killer processes blocked in queue.get()
    workers,        \* crawler processes, in order of start
    enqueued,       \* put() calls on urls_queue
    task_dones,     \* task_done() calls on urls_queue that returned
    getCount,       \* task -> number of get() calls that returned it
    doneCount,      \* task -> number of task_done() calls issued for it
    failures        \* tor launches that have failed to start

vars == <<argN, argK, mainpc, num_tor_instances, curlmulti_handles_per_process,
          num_urls, crawls, urls_queue, unfinished, backend,
          tor_queue, tor_unfinished, tor_closed, killers, workers, enqueued,
          task_dones, getCount, doneCount, failures, filename, tor_configs>>

mainVars == <<mainpc, num_tor_instances, curlmulti_handles_per_process, num_urls, crawls>>
argVars == <<argN, argK>>
urlVars == <<urls_queue, unfinished, enqueued, task_dones, filename>>
ghostVars == <<getCount, doneCount>>
torVars == <<backend, tor_queue, tor_unfinished, tor_closed, killers, failures,
            tor_configs>>

(* ------------------------------------------------------ integer helpers *)
\* Python's % on ints: the result has the sign of the divisor
PyMod(a, b) == IF b > 0 THEN a % b ELSE 0 - ((0 - a) % (0 - b))

\* Python 2's / on ints: floor division
PyDiv(a, b) == IF b > 0 THEN a \div b ELSE (0 - a) \div (0 - b)

\* range(n)
Range(n) == 0..(n - 1)

\* the list [0, 1, .., n-1]
RangeSeq(n) == [i \in 1..(IF n > 0 THEN n ELSE 0) |-> i - 1]

\* the elements of a finite set of integers, ascending
RECURSIVE SortedSeq(_)
SortedSeq(S) ==
    IF S = {} THEN <<>>
    ELSE LET m == CHOOSE x \in S : \A y \in S : x <= y
         IN <<m>> \o SortedSeq(S \ {m})

(* ------------------------------------------------------ string formatting *)
Digits == <<"0", "1", "2", "3", "4", "5", "6", "7", "8", "9">>

\* "%i" % n for n >= 0: the decimal digits, most significant first
RECURSIVE Dec(_)
Dec(n) ==
    IF n < 10 THEN <<Digits[n + 1]>>
    ELSE Dec(n \div 10) \o <<Digits[(n % 10) + 1]>>

\* "%03d" % n for n >= 0: padded with zeros to three digits, never cut
Pad3(n) ==
    LET d == Dec(n)
    IN IF Len(d) >= 3 THEN d ELSE [i \in 1..(3 - Len(d)) |-> "0"] \o d

(* --------------------------------------------------------- construction *)
\* faulty variant: the assert is compiled away
ConfigAcceptedStripped(n, k) == n >= 0

\* the assert of TorCrawler.__init__
ConfigAccepted(n, k) == n >= k

\* faulty variant: the adjustment is left out
AdjustedInstancesKept(n, k) == n

\* num_tor_instances after the adjustment to a multiple of the handles per process
AdjustedInstances(n, k) ==
    IF PyMod(n, k) # 0 THEN n - PyMod(n, k) ELSE n

\* number of crawler processes crawl() starts
NumDownloaders(n, k) == PyDiv(n, k)

\* worker groups a configuration leads to (0 when construction raises)
GroupsOf(n, k) ==
    IF k = 0 \/ ~ConfigAccepted(n, k) THEN 0
    ELSE NumDownloaders(AdjustedInstances(n, k), k)

Backends == Range(MaxTor)

Init ==
    /\ argN \in 0..MaxTor
    /\ argK \in (0 - 1)..MaxHandles
    /\ GroupsOf(argN, argK) <= MaxGroups
    /\ mainpc = "new"
    /\ num_tor_instances = 0
    /\ curlmulti_handles_per_process = 0
    /\ num_urls = 0
    /\ crawls = 0
    /\ urls_queue = <<>>
    /\ unfinished = 0
    /\ backend = [i \in Backends |-> "Absent"]
    /\ tor_queue = {}
    /\ tor_unfinished = 0
    /\ tor_closed = FALSE
    /\ killers = 0
    /\ workers = <<>>
    /\ enqueued = 0
    /\ task_dones = 0
    /\ getCount = [t \in Tasks |-> 0]
    /\ doneCount = [t \in Tasks |-> 0]
    /\ failures = 0
    /\ filename = [t \in Tasks |-> <<>>]
    /\ tor_configs = {}

\* TorCrawler.__init__ raises: the assert fails, or the modulo divides by zero
init_raises ==
    /\ mainpc = "new"
    /\ ~ConfigAccepted(argN, argK) \/ argK = 0
    /\ mainpc' = "raised"
    /\ UNCHANGED <<argVars, num_tor_instances, curlmulti_handles_per_process,
                   num_urls, crawls, urlVars, torVars, workers, ghostVars>>

\* TorCrawler.__init__ returns an object
init_ok ==
    /\ mainpc = "new"
    /\ ConfigAccepted(argN, argK)
    /\ argK # 0
    /\ num_tor_instances' = AdjustedInstances(argN, argK)
    /\ curlmulti_handles_per_process' = argK
    /\ num_urls' = 0
    /\ mainpc' = "idle"
    /\ UNCHANGED <<argVars, crawls, urlVars, torVars, workers, ghostVars>>

\* faulty variant: the size of the queue is read once, before the loop
FilenameFixed(qsize) == <<"doc_">> \o Pad3(1) \o <<".txt">>

\* the filename of the item put when the queue held qsize items (the results
\* directory comes first in every filename and is left out)
Filename(qsize) == <<"doc_">> \o Pad3(qsize + 1) \o <<".txt">>

\* load_urls: a fresh queue holding every url; only before the first crawl()
load_urls ==
    /\ mainpc = "idle"
    /\ crawls = 0
    /\ urls_queue' = [i \in 1..NumUrls |-> i]
    /\ filename' = [t \in Tasks |-> Filename(t - 1)]
    /\ unfinished' = NumUrls
    /\ enqueued' = NumUrls
    /\ task_dones' = 0
    /\ num_urls' = NumUrls
    /\ UNCHANGED <<argVars, mainpc, num_tor_instances, curlmulti_handles_per_process,
                   crawls, torVars, workers, ghostVars>>

(* ---------------------------------------------------------------- crawl *)
\* the test crawl() starts with
NothingToDo(n) == n = 0

\* crawl() with num_urls == 0: returns at once
crawl_nothing ==
    /\ mainpc = "idle"
    /\ crawls < MaxCrawls
    /\ num_urls = 0
    /\ crawls' = crawls + 1
    /\ UNCHANGED <<argVars, mainpc, num_tor_instances, curlmulti_handles_per_process,
                   num_urls, urlVars, torVars, workers, ghostVars>>

\* a tor process holds the port of its index from its launch until it has died
PortBusy(b) == b \in {"Ready", "Terminating"}

\* the launcher process of one index: the state of the tor process it leaves behind
\* (fails: launch_tor_with_config raises, because the port is still held by an
\* earlier tor or because tor does not come up)
LauncherBackend(b, fails) ==
    IF PortBusy(b) THEN b
    ELSE IF fails THEN "Absent" ELSE "Ready"

\* the launcher process of one index: whether its handle reaches the queue
\* (the put asserts the queue is not closed; when it is, the handle is lost)
LauncherPuts(b, fails, closed) == ~PortBusy(b) /\ ~fails /\ ~closed

\* faulty variant: the control ports start one above the first socks port
BaseControlPortNext(base, n) == base + 1

\* TorHandler.__init__: the first control port follows the last socks port
BaseControlPort(base, n) == base + n

\* the data directory of a tor process (the prefix ~/.tor/tor_ comes first in
\* every directory and is left out)
DataDirectory(socks_port, control_port) ==
    <<"s">> \o Dec(socks_port) \o <<"c">> \o Dec(control_port)

\* what the launcher process of one index hands to launch_tor_with_config
LauncherConfig(process_index, n) ==
    LET socks_port == base_socks_port + process_index
        control_port == BaseControlPort(base_socks_port, n) + process_index
    IN [index |-> process_index,
        socks_port |-> socks_port,
        control_port |-> control_port,
        data_directory |-> DataDirectory(socks_port, control_port)]

\* crawl() with urls loaded calls launch(): one launcher process per tor instance,
\* and launch() returns once every launcher process has exited
crawl_launch ==
    /\ mainpc = "idle"
    /\ crawls < MaxCrawls
    /\ ~NothingToDo(num_urls)
    /\ \E F \in SUBSET {i \in Range(num_tor_instances) : ~PortBusy(backend[i])} :
         /\ failures + Cardinality(F) <= MaxLaunchFailures
         /\ failures' = failures + Cardinality(F)
         /\ backend' = [i \in Backends |->
                          IF i \in Range(num_tor_instances)
                          THEN LauncherBackend(backend[i], i \in F)
                          ELSE backend[i]]
         /\ LET put == {i \in Range(num_tor_instances) :
                           LauncherPuts(backend[i], i \in F, tor_closed)}
            IN /\ tor_queue' = tor_queue \cup put
               /\ tor_unfinished' = tor_unfinished + Cardinality(put)
    /\ tor_configs' = tor_configs \cup
           {LauncherConfig(i, num_tor_instances) : i \in Range(num_tor_instances)}
    /\ mainpc' = "start"
    /\ UNCHANGED <<argVars, num_tor_instances, curlmulti_handles_per_process, num_urls,
                   crawls, urlVars, tor_closed, killers, workers, ghostVars>>

\* faulty variant: the first socks port of a crawler process moves by one per process
GroupSocksPortDense(process_index, k) == base_socks_port + process_index

\* the first socks port and the first control port of a crawler process
GroupSocksPort(process_index, k) == base_socks_port + (k * process_index)
GroupControlPort(process_index, k, n) ==
    BaseControlPort(base_socks_port, n) + (k * process_index)

\* a crawler process as it enters its main loop
NewWorker(process_index, k, n) ==
    [idx |-> process_index,
     socks_port |-> [c \in Range(k) |-> GroupSocksPort(process_index, k) + c],
     control_port |-> [c \in Range(k) |-> GroupControlPort(process_index, k, n) + c],
     pc |-> "admit",
     freelist |-> RangeSeq(k),
     multi |-> {},
     fp |-> [c \in Range(k) |-> 0],
     st |-> [c \in Range(k) |-> "idle"],
     owed |-> 0,
     reaped |-> <<>>]   \* what the last info_read() reported and is not yet notified

\* crawl() starts the crawler processes
start_workers ==
    /\ mainpc = "start"
    /\ LET n == NumDownloaders(num_tor_instances, curlmulti_handles_per_process)
       IN workers' = workers \o
            [j \in 1..(IF n > 0 THEN n ELSE 0) |->
                NewWorker(j - 1, curlmulti_handles_per_process, num_tor_instances)]
    /\ mainpc' = "join"
    /\ UNCHANGED <<argVars, num_tor_instances, curlmulti_handles_per_process, num_urls,
                   crawls, urlVars, torVars, ghostVars>>

\* faulty variant: join() does not wait
JoinReturnsAtOnce(n) == TRUE

\* faulty variant: join() lets go with one task still unfinished
JoinReturnsEarly(n) == n <= 1

\* JoinableQueue.join(): returns when no task is unfinished
JoinReturns(n) == n = 0

\* urls_queue.join() returns and kill() starts one killer process per tor instance
\* (a killer whose queue is already closed dies in its get())
join_kill ==
    /\ mainpc = "join"
    /\ JoinReturns(unfinished)
    /\ killers' = killers + (IF tor_closed THEN 0 ELSE num_tor_instances)
    /\ mainpc' = "kill"
    /\ UNCHANGED <<argVars, num_tor_instances, curlmulti_handles_per_process, num_urls,
                   crawls, urlVars, backend, tor_queue, tor_unfinished,
                   tor_closed, failures, tor_configs, workers, ghostVars>>

\* Popen.kill(): the signal is sent, the process has yet to die
Killed(b) == IF b = "Ready" THEN "Terminating" ELSE b

\* one killer process: get, kill, task_done
process_killer(i) ==
    /\ killers > 0
    /\ i \in tor_queue
    /\ backend' = [backend EXCEPT ![i] = Killed(@)]
    /\ tor_queue' = tor_queue \ {i}
    /\ tor_unfinished' = tor_unfinished - 1
    /\ killers' = killers - 1
    /\ UNCHANGED <<argVars, mainVars, urlVars, tor_closed, failures, tor_configs,
                   workers, ghostVars>>

\* one killer process whose tor process has died by itself since its launch: the
\* tor process was left to init by its launcher process and is reaped as it
\* dies, so Popen.kill() finds no such pid, raises OSError, and the killer
\* process ends before its task_done (a death is taken at the one place that
\* observes it)
process_killer_raises(i) ==
    /\ killers > 0
    /\ i \in tor_queue
    /\ backend[i] = "Ready"
    /\ backend' = [backend EXCEPT ![i] = "Dead"]
    /\ tor_queue' = tor_queue \ {i}
    /\ killers' = killers - 1
    /\ UNCHANGED <<argVars, mainVars, urlVars, tor_unfinished, tor_closed, failures,
                   tor_configs, workers, ghostVars>>

\* tor_processes_queue.join() returns, the queue is closed, crawl() returns
kill_returns ==
    /\ mainpc = "kill"
    /\ JoinReturns(tor_unfinished)
    /\ tor_closed' = TRUE
    /\ crawls' = crawls + 1
    /\ mainpc' = "idle"
    /\ UNCHANGED <<argVars, num_tor_instances, curlmulti_handles_per_process, num_urls,
                   urlVars, backend, tor_queue, tor_unfinished, killers,
                   failures, tor_configs, workers, ghostVars>>

\* a killed tor process dies
backend_exit(i) ==
    /\ backend[i] = "Terminating"
    /\ backend' = [backend EXCEPT ![i] = "Dead"]
    /\ UNCHANGED <<argVars, mainVars, urlVars, tor_queue, tor_unfinished,
                   tor_closed, killers, failures, tor_configs, workers, ghostVars>>

(* ------------------------------------------------- the crawler processes *)
Workers == 1..Len(workers)

\* the condition of the admission loop
CanAdmit(wk, q) == wk.freelist # <<>> /\ q # <<>>

\* a pass of the main loop with nothing to admit and no handle on the multi stack:
\* perform, info_read and select find nothing, and the worker is back at the loop head
idle_pass(w) ==
    /\ w \in Workers
    /\ workers[w].pc = "admit"
    /\ ~CanAdmit(workers[w], urls_queue)
    /\ workers[w].multi = {}
    /\ UNCHANGED vars

\* the admission loop tests its condition
admit(w) ==
    /\ w \in Workers
    /\ workers[w].pc = "admit"
    /\ CanAdmit(workers[w], urls_queue) \/ workers[w].multi # {}
    /\ workers' = [workers EXCEPT ![w].pc =
                     IF CanAdmit(workers[w], urls_queue) THEN "get" ELSE "perform"]
    /\ UNCHANGED <<argVars, mainVars, urlVars, torVars, ghostVars>>

\* freelist.pop(): the last handle of the list
PopHandle(fl) == fl[Len(fl)]

\* the body of the admission loop once get() has returned task t
Assign(wk, t) ==
    LET c == PopHandle(wk.freelist)
    IN [wk EXCEPT !.freelist = SubSeq(@, 1, Len(@) - 1),
                  !.fp = [@ EXCEPT ![c] = t],
                  !.multi = @ \cup {c},
                  !.st = [@ EXCEPT ![c] = "run"],
                  !.pc = "admit"]

\* faulty variant: the item is read and left on the queue
get_peek(w) ==
    /\ w \in Workers
    /\ workers[w].pc = "get"
    /\ urls_queue # <<>>
    /\ LET t == Head(urls_queue)
       IN /\ workers' = [workers EXCEPT ![w] = Assign(@, t)]
          /\ getCount' = [getCount EXCEPT ![t] = IF @ < 2 THEN @ + 1 ELSE @]
    /\ UNCHANGED <<argVars, mainVars, urlVars, torVars, doneCount>>

\* queue.get() blocks until an item is there, then the handle is set up
get(w) ==
    /\ w \in Workers
    /\ workers[w].pc = "get"
    /\ urls_queue # <<>>
    /\ LET t == Head(urls_queue)
       IN /\ workers' = [workers EXCEPT ![w] = Assign(@, t)]
          /\ getCount' = [getCount EXCEPT ![t] = @ + 1]
    /\ urls_queue' = Tail(urls_queue)
    /\ UNCHANGED <<argVars, mainVars, unfinished, enqueued, task_dones, filename,
                   torVars, doneCount>>

\* handles of the multi stack whose transfer is still running
Running(wk) == {c \in wk.multi : wk.st[c] = "run"}

\* m.perform(): each running transfer goes on, succeeds or fails
perform(w) ==
    /\ w \in Workers
    /\ workers[w].pc = "perform"
    /\ \E f \in [Running(workers[w]) -> {"run", "ok", "err"}] :
         workers' = [workers EXCEPT
                       ![w].st = [c \in DOMAIN @ |-> IF c \in DOMAIN f THEN f[c] ELSE @[c]],
                       ![w].pc = "info_read"]
    /\ UNCHANGED <<argVars, mainVars, urlVars, torVars, ghostVars>>

\* the ok_list and err_list of m.info_read()
OkList(wk) == SortedSeq({c \in wk.multi : wk.st[c] = "ok"})
ErrList(wk) == SortedSeq({c \in wk.multi : wk.st[c] = "err"})

\* faulty variant: the output file of a successful transfer is left open
ReleaseOkKeepsFile(wk, c) ==
    [wk EXCEPT !.reaped = Append(@, <<wk.fp[c], "ok">>),
               !.multi = @ \ {c},
               !.st = [@ EXCEPT ![c] = "idle"],
               !.freelist = Append(@, c)]

\* the loop body for a handle of ok_list
ReleaseOk(wk, c) ==
    [wk EXCEPT !.reaped = Append(@, <<wk.fp[c], "ok">>),
               !.fp = [@ EXCEPT ![c] = 0],
               !.multi = @ \ {c},
               !.st = [@ EXCEPT ![c] = "idle"],
               !.freelist = Append(@, c)]

\* faulty variant: a failed handle is not given back to the freelist
ReleaseErrLeak(wk, c) ==
    [wk EXCEPT !.reaped = Append(@, <<wk.fp[c], "err">>),
               !.fp = [@ EXCEPT ![c] = 0],
               !.multi = @ \ {c},
               !.st = [@ EXCEPT ![c] = "idle"]]

\* the loop body for a handle of err_list
ReleaseErr(wk, c) ==
    [wk EXCEPT !.reaped = Append(@, <<wk.fp[c], "err">>),
               !.fp = [@ EXCEPT ![c] = 0],
               !.multi = @ \ {c},
               !.st = [@ EXCEPT ![c] = "idle"],
               !.freelist = Append(@, c)]

RECURSIVE ReleaseAllOk(_, _)
ReleaseAllOk(wk, cs) ==
    IF cs = <<>> THEN wk ELSE ReleaseAllOk(ReleaseOk(wk, Head(cs)), Tail(cs))

RECURSIVE ReleaseAllErr(_, _)
ReleaseAllErr(wk, cs) ==
    IF cs = <<>> THEN wk ELSE ReleaseAllErr(ReleaseErr(wk, Head(cs)), Tail(cs))

\* faulty variant: the failed handles are counted twice
NumDoneErrTwice(ok_list, err_list) == Len(ok_list) + Len(err_list) + Len(err_list)

\* faulty variant: only the successful handles are counted
NumDoneOkOnly(ok_list, err_list) == Len(ok_list)

\* num_done_this_round
NumDoneThisRound(ok_list, err_list) == Len(ok_list) + Len(err_list)

\* one round of the reaping loop up to its task_done calls
Reap(wk) ==
    LET ok_list == OkList(wk)
        err_list == ErrList(wk)
        n == NumDoneThisRound(ok_list, err_list)
        freed == ReleaseAllErr(ReleaseAllOk(wk, ok_list), err_list)
    IN [freed EXCEPT !.owed = n,
                     !.pc = IF n > 0 THEN "task_done" ELSE "select"]

\* m.info_read() and the two loops over its lists (info_read() is called without
\* a limit, so one call reports every finished transfer and leaves num_q at 0)
info_read(w) ==
    /\ w \in Workers
    /\ workers[w].pc = "info_read"
    /\ workers' = [workers EXCEPT ![w] = Reap(@)]
    /\ UNCHANGED <<argVars, mainVars, urlVars, torVars, ghostVars>>

\* JoinableQueue.task_done() raises ValueError when no task is unfinished
TaskDoneRaises(n) == n = 0

\* one queue.task_done() of the notification loop
task_done(w) ==
    /\ w \in Workers
    /\ workers[w].pc = "task_done"
    /\ IF TaskDoneRaises(unfinished)
       THEN /\ workers' = [workers EXCEPT ![w].pc = "crashed"]
            /\ UNCHANGED <<unfinished, task_dones, doneCount>>
       ELSE /\ unfinished' = unfinished - 1
            /\ task_dones' = task_dones + 1
            /\ LET wk == workers[w]
                   r == wk.reaped
               IN /\ workers' = [workers EXCEPT
                        ![w].owed = @ - 1,
                        ![w].reaped = IF r = <<>> THEN r ELSE Tail(r),
                        ![w].pc = IF wk.owed - 1 > 0 THEN "task_done" ELSE "select"]
                  /\ doneCount' = IF r = <<>> THEN doneCount
                                  ELSE [doneCount EXCEPT ![Head(r)[1]] = @ + 1]
    /\ UNCHANGED <<argVars, mainVars, urls_queue, enqueued, filename, torVars,
                   getCount>>

\* m.select(1.0) returns and the main loop starts over
select(w) ==
    /\ w \in Workers
    /\ workers[w].pc = "select"
    /\ workers' = [workers EXCEPT ![w].pc = "admit"]
    /\ UNCHANGED <<argVars, mainVars, urlVars, torVars, ghostVars>>

WorkerIds == 1..MaxWorkers

Next ==
    \/ init_raises
    \/ init_ok
    \/ load_urls
    \/ crawl_nothing
    \/ crawl_launch
    \/ start_workers
    \/ join_kill
    \/ \E i \in Backends : process_killer(i)
    \/ \E i \in Backends : process_killer_raises(i)
    \/ kill_returns
    \/ \E i \in Backends : backend_exit(i)
    \/ \E w \in WorkerIds : idle_pass(w)
    \/ \E w \in WorkerIds : admit(w)
    \/ \E w \in WorkerIds : get(w)
    \/ \E w \in WorkerIds : perform(w)
    \/ \E w \in WorkerIds : info_read(w)
    \/ \E w \in WorkerIds : task_done(w)
    \/ \E w \in WorkerIds : select(w)

Spec == Init /\ [][Next]_vars

(* -------------------------------------------------------------- fairness *)
\* a step of crawler process w
WorkerStep(w) ==
    admit(w) \/ get(w) \/ perform(w) \/ info_read(w) \/ task_done(w) \/ select(w)

\* a perform() in which at least one transfer of w reaches a terminal state
\* (CONNECTTIMEOUT and TIMEOUT bound every transfer)
perform_ends(w) ==
    /\ perform(w)
    /\ \E c \in Running(workers[w]) : workers'[w].st[c] # "run"

\* every process that can run does run, and no transfer runs for ever
Fairness ==
    /\ WF_vars(start_workers)
    /\ WF_vars(join_kill)
    /\ WF_vars(kill_returns)
    /\ WF_vars(\E i \in Backends : process_killer(i) \/ process_killer_raises(i))
    /\ WF_vars(\E i \in Backends : backend_exit(i))
    /\ \A w \in WorkerIds : WF_vars(WorkerStep(w))
    /\ \A w \in WorkerIds : SF_vars(perform_ends(w))

FairSpec == Init /\ [][Next]_vars /\ Fairness

(* ------------------------------------------------------------ properties *)
\* how often handle c is on the freelist of wk
Occurrences(wk, c) == Cardinality({i \in 1..Len(wk.freelist) : wk.freelist[i] = c})

IsFree(wk, c) == wk.fp[c] = 0 /\ c \notin wk.multi /\ Occurrences(wk, c) = 1
IsActive(wk, c) == wk.fp[c] # 0 /\ wk.fp[c] \in Tasks /\ c \in wk.multi
                       /\ Occurrences(wk, c) = 0

RECURSIVE SumOf(_, _)
SumOf(f, S) ==
    IF S = {} THEN 0
    ELSE LET x == CHOOSE y \in S : TRUE IN f[x] + SumOf(f, S \ {x})

\* get() calls that have returned
GetCalls == SumOf(getCount, Tasks)

InQueue(t) == \E i \in 1..Len(urls_queue) : urls_queue[i] = t

\* the handles of crawler process w whose output file is the one of task t
HandlesOn(w, t) == {c \in DOMAIN workers[w].fp : workers[w].fp[c] = t}

\* the handles, over all crawler processes, whose output file is the one of task t
Holders(t) == UNION {{<<w, c>> : c \in HandlesOn(w, t)} : w \in Workers}

\* the entries for task t among those reaped and not yet notified
Reaped(t) == UNION {{<<w, i>> : i \in {j \in 1..Len(workers[w].reaped) :
                                          workers[w].reaped[j][1] = t}} : w \in Workers}

AllTasksDone ==
    /\ urls_queue = <<>>
    /\ \A t \in Tasks : doneCount[t] = 1 /\ Holders(t) = {}

\* C1: in every crawler process each handle is either on the freelist with no
\* output file and off the multi stack, or off the freelist with one task's file
\* open and on the multi stack; free and active handles add up to the handles
\* per process
C1_SlotPartition ==
    \A w \in Workers :
        LET wk == workers[w]
        IN /\ DOMAIN wk.fp = Range(curlmulti_handles_per_process)
           /\ \A c \in DOMAIN wk.fp : IsFree(wk, c) # IsActive(wk, c)
           /\ Len(wk.freelist) + Cardinality(wk.multi) = curlmulti_handles_per_process

\* C1 witness: a process that has reaped failed transfers holds a free and an
\* active handle at once
C1_Witness ==
    \E w \in Workers :
        /\ workers[w].freelist # <<>>
        /\ workers[w].multi # {}
        /\ \E i \in 1..Len(workers[w].reaped) : workers[w].reaped[i][2] = "err"

\* C2: the unfinished count is the puts minus the task_done calls, is never
\* negative, task_done is never called more often than get, and no task_done
\* call raises
C2_QueueAccounting ==
    /\ unfinished = enqueued - task_dones
    /\ unfinished >= 0
    /\ task_dones <= GetCalls
    /\ \A w \in Workers : workers[w].pc # "crashed"

\* C2 witness: two processes, some tasks notified, some still unfinished
C2_Witness ==
    /\ Len(workers) >= 2
    /\ task_dones >= 1
    /\ unfinished >= 1
    /\ \E w \in Workers : workers[w].pc = "task_done"

\* C3: no task is returned by get() twice, no task is held by two handles, a
\* task that was dequeued is not on the queue again, and once crawl() has passed
\* its join every task has been dequeued
C3_DequeuedOnce ==
    \A t \in Tasks :
        /\ getCount[t] <= 1
        /\ Cardinality(Holders(t)) <= 1
        /\ getCount[t] = 1 => ~InQueue(t)
        /\ (num_urls # 0 /\ ~InQueue(t)) => getCount[t] = 1
        /\ (mainpc = "kill" \/ crawls >= 1) /\ num_urls # 0 => getCount[t] = 1

\* C3 witness: a transfer has failed, every task has been dequeued once, the
\* queue stays empty
C3_Witness ==
    /\ urls_queue = <<>>
    /\ \A t \in Tasks : getCount[t] = 1
    /\ \E w \in Workers : \E i \in 1..Len(workers[w].reaped) :
           workers[w].reaped[i][2] = "err"

\* C4: a loaded task is in exactly one place: on the queue, in one handle, reaped
\* and waiting for its task_done, or notified once; a process owes one task_done
\* per reaped transfer, failed or not; a finished transfer is reaped in the pass
\* it finished in and its handle is back on the freelist; no process has left
\* its loop
C4_DoneOncePerTask ==
    /\ \A t \in Tasks :
          (IF InQueue(t) THEN 1 ELSE 0) + Cardinality(Holders(t))
              + Cardinality(Reaped(t)) + doneCount[t]
            = (IF num_urls # 0 THEN 1 ELSE 0)
    /\ \A w \in Workers :
          LET wk == workers[w]
          IN /\ wk.owed = Len(wk.reaped)
             /\ wk.pc = "task_done" <=> wk.owed > 0
             /\ wk.pc # "crashed"
             /\ wk.pc # "info_read" => \A c \in wk.multi : wk.st[c] = "run"
             /\ Len(wk.freelist) = Cardinality({c \in DOMAIN wk.fp : wk.fp[c] = 0})

\* C4 witness: one round has reaped a successful and a failed transfer, and the
\* process is notifying both
C4_Witness ==
    \E w \in Workers :
        /\ workers[w].pc = "task_done"
        /\ \E i, j \in 1..Len(workers[w].reaped) :
              workers[w].reaped[i][2] = "ok" /\ workers[w].reaped[j][2] = "err"

\* C5: while crawl() waits in urls_queue.join(), the join can return exactly when
\* every task has been notified; once crawl() is past the join, every task has
\* been notified, none is on the queue and none is in a handle
C5_JoinIffAllDone ==
    /\ mainpc = "join" => ((ENABLED join_kill) <=> AllTasksDone)
    /\ (mainpc = "kill" \/ (crawls >= 1 /\ num_urls # 0)) => AllTasksDone

\* C5 witness: crawl() is past the join after two processes drained the queue
C5_Witness ==
    /\ mainpc = "kill"
    /\ crawls = 0
    /\ Len(workers) >= 2
    /\ AllTasksDone

\* C6: every task a crawler process dequeues is eventually notified with task_done
C6_DequeuedEventuallyDone ==
    \A t \in Tasks : (getCount[t] >= 1) ~> (doneCount[t] >= 1)

\* a killer process has ended before its task_done: a tor process had died by
\* itself
KillerRaised == tor_unfinished > Cardinality(tor_queue)

\* C7: a crawl() all of whose backends have launched, with a positive number of
\* handles per process, eventually returns, as long as no tor process dies by
\* itself
C7_CrawlReturns ==
    (mainpc = "start" /\ curlmulti_handles_per_process > 0 /\ failures = 0)
        ~> (mainpc = "idle" \/ KillerRaised)

\* C8: when crawl() has returned from a crawl, no tor process is left running
C8_NoBackendLeft ==
    (mainpc = "idle" /\ crawls >= 1 /\ num_urls # 0)
        => \A i \in Backends : backend[i] \in {"Absent", "Dead"}

\* C9: a crawl() called while the task queue is empty returns at once, with no
\* backend launched and no crawler process started
C9_EmptyQueueNoop ==
    [][(mainpc = "idle" /\ urls_queue = <<>>
            /\ (crawls' = crawls + 1 \/ mainpc' = "start"))
        => (mainpc' = "idle" /\ backend' = backend /\ workers' = workers)]_vars

\* C10: with more handles per process than tor instances the constructor raises,
\* no object is left, and nothing has been launched
C10_TooManyHandlesRaises ==
    (argK > argN /\ mainpc # "new")
        => /\ mainpc = "raised"
           /\ num_tor_instances = 0
           /\ curlmulti_handles_per_process = 0
           /\ workers = <<>>
           /\ killers = 0
           /\ \A i \in Backends : backend[i] = "Absent"

\* C10 witness: the constructor has raised for more handles than instances
C10_Witness ==
    /\ mainpc = "raised"
    /\ argN >= 1
    /\ argK > argN

\* m is the largest multiple of k that is not above n
IsLargestMultiple(m, k, n) ==
    /\ \E q \in 0..n : m = q * k
    /\ m <= n
    /\ m + k > n

\* the slots of the crawler processes after the first old of them
SlotsStarted(ws, old) ==
    UNION {{<<j, c>> : c \in DOMAIN ws[j].fp} : j \in (old + 1)..Len(ws)}

\* C11: with num_tor_instances >= curlmulti_handles_per_process > 0 the constructor
\* returns an object whose num_tor_instances is the largest multiple of the handles
\* per process not above the argument, and crawl() starts exactly
\* num_tor_instances / handles crawler processes, numbered from 0, each with
\* exactly that many handles, all free; their handles are as many as the tor
\* instances launch() was asked for, and as many as the tor processes that are up
\* when every launch of a first crawl succeeded
C11_UniformGroups ==
    [][(argN >= argK /\ argK > 0) =>
         /\ (mainpc = "new" /\ mainpc' # "new") =>
               /\ mainpc' = "idle"
               /\ curlmulti_handles_per_process' = argK
               /\ IsLargestMultiple(num_tor_instances', argK, argN)
               /\ (argN % argK = 0) => num_tor_instances' = argN
         /\ (mainpc = "start" /\ mainpc' # "start") =>
               LET k == curlmulti_handles_per_process
                   g == num_tor_instances \div k
                   old == Len(workers)
               IN /\ g * k = num_tor_instances
                  /\ Len(workers') = old + g
                  /\ SubSeq(workers', 1, old) = workers
                  /\ \A j \in 1..g :
                        /\ workers'[old + j].idx = j - 1
                        /\ DOMAIN workers'[old + j].fp = Range(k)
                        /\ Len(workers'[old + j].freelist) = k
                        /\ workers'[old + j].multi = {}
                  /\ Cardinality(SlotsStarted(workers', old)) = num_tor_instances
                  /\ Cardinality(tor_configs) = num_tor_instances
                  /\ (failures = 0 /\ ~tor_closed) =>
                        Cardinality({i \in Backends : backend[i] = "Ready"})
                            = Cardinality(SlotsStarted(workers', old))
      ]_vars

\* C11 witness: 4 tor instances and 3 handles per process were asked for, and
\* crawl() has started its one crawler process for the 3 tor instances kept
C11_Witness ==
    /\ argN = 4
    /\ argK = 3
    /\ num_tor_instances = 3
    /\ mainpc = "join"
    /\ Len(workers) = 1
    /\ Cardinality({i \in Backends : backend[i] = "Ready"}) = 3

\* C12: when a tor process failed to start in the launch of a first crawl, the
\* crawl is given up: no crawler process is started for it
C12_LaunchFailureAborts ==
    [][(mainpc = "start" /\ ~tor_closed /\ failures > 0) => workers' = workers]_vars

\* the socks ports of the handles of crawler process w, and of those of its
\* handles that hold a transfer
PortsOf(w) == {workers[w].socks_port[c] : c \in DOMAIN workers[w].socks_port}
ActivePortsOf(w) == {workers[w].socks_port[c] : c \in workers[w].multi}

\* two crawler processes were started by the same crawl()
SameCrawl(w1, w2) ==
    LET g == num_tor_instances \div curlmulti_handles_per_process
    IN (w1 - 1) \div g = (w2 - 1) \div g

OtherBasePorts == {0, 8, 98, 998}

\* the data directories of n tor processes on base are pairwise distinct
DataDirectoriesDistinct(base, n) ==
    \A i, j \in Range(n) :
        i # j => DataDirectory(base + i, BaseControlPort(base, n) + i)
                   # DataDirectory(base + j, BaseControlPort(base, n) + j)

\* the same for every base above and every number of tor processes in the bounds
OtherBasesDistinct ==
    \A base \in OtherBasePorts : \A n \in 0..MaxTor : DataDirectoriesDistinct(base, n)

\* C14: launch() hands tor process i the socks port base_socks_port + i and the
\* control port base_control_port + i, where base_control_port is base_socks_port
\* + num_tor_instances; all these ports are pairwise distinct, no socks port is any
\* control port, and two distinct tor processes have distinct data directories
\* (for the default base_socks_port, and for the data directories under other bases)
C14_PortsAndDirectories ==
    /\ Cardinality(tor_configs) \in {0, num_tor_instances}
    /\ \A cfg \in tor_configs :
          /\ cfg.index \in Range(num_tor_instances)
          /\ cfg.socks_port = base_socks_port + cfg.index
          /\ cfg.control_port = base_socks_port + num_tor_instances + cfg.index
    /\ \A c1, c2 \in tor_configs :
          /\ c1.socks_port # c2.control_port
          /\ c1 # c2 =>
                /\ c1.index # c2.index
                /\ c1.socks_port # c2.socks_port
                /\ c1.control_port # c2.control_port
                /\ c1.data_directory # c2.data_directory
    /\ Cardinality({cfg.socks_port : cfg \in tor_configs}
                       \cup {cfg.control_port : cfg \in tor_configs})
          = 2 * Cardinality(tor_configs)
    /\ OtherBasesDistinct

\* C14 witness: launch() has started three tor processes, after the constructor
\* took one off the four asked for
C14_Witness ==
    /\ argN = 4
    /\ num_tor_instances = 3
    /\ Cardinality(tor_configs) = 3
    /\ \E cfg \in tor_configs :
          cfg.data_directory = <<"s", "8", "0", "0", "2", "c", "8", "0", "0", "5">>

\* C15: no crawler process waits in queue.get() on an empty queue while one of
\* its handles holds a transfer
C15_NoGetWhileHolding ==
    \A w \in Workers :
        ~(workers[w].pc = "get" /\ urls_queue = <<>> /\ workers[w].multi # {})

\* C16: in a crawl() with urls loaded, until launch() has returned nothing has been
\* started or dequeued and, before launch() is called, no tor process exists; while
\* crawl() has not reached kill() no killer process exists and no tor process has
\* been signalled; and whenever a killer process exists or a tor process has been
\* signalled, no task is pending, no task is unfinished and no handle holds a
\* transfer
C16_PhaseOrder ==
    /\ (~tor_closed /\ mainpc \in {"new", "raised", "idle", "start"}) =>
          /\ workers = <<>>
          /\ \A t \in Tasks : getCount[t] = 0 /\ doneCount[t] = 0
          /\ unfinished = Len(urls_queue)
          /\ killers = 0
    /\ (~tor_closed /\ mainpc \in {"new", "raised", "idle"}) =>
          /\ tor_configs = {}
          /\ \A i \in Backends : backend[i] = "Absent"
    /\ (~tor_closed /\ mainpc \in {"start", "join"}) =>
          /\ killers = 0
          /\ \A i \in Backends : backend[i] \in {"Absent", "Ready"}
          /\ Cardinality(tor_configs) = num_tor_instances
    /\ (killers > 0 \/ \E i \in Backends : backend[i] \in {"Terminating", "Dead"}) =>
          /\ num_urls # 0
          /\ urls_queue = <<>>
          /\ unfinished = 0
          /\ \A w \in Workers : workers[w].multi = {} /\ workers[w].owed = 0

\* C16 witness: two crawler processes have drained the queue, crawl() is in kill(),
\* one tor process has been signalled and another has not yet
C16_Witness ==
    /\ mainpc = "kill"
    /\ Len(workers) >= 2
    /\ \A t \in Tasks : doneCount[t] = 1
    /\ \E i \in Backends : backend[i] = "Terminating"
    /\ \E i \in Backends : backend[i] = "Ready"

\* the handles, over all crawler processes, that have an output file open
OpenSlots ==
    UNION {{<<w, c>> : c \in {d \in DOMAIN workers[w].fp : workers[w].fp[d] # 0}} :
              w \in Workers}

\* the path of the output file a handle has open
OpenPath(sl) == filename[workers[sl[1]].fp[sl[2]]]

\* C17: with the filenames load_urls gives its items, every open output file is
\* the file of a loaded item, and no two handles, of one crawler process or of
\* two, have the same path open at the same time
C17_NoSharedOutput ==
    /\ \A sl \in OpenSlots : OpenPath(sl) # <<>>
    /\ \A s1, s2 \in OpenSlots : s1 # s2 => OpenPath(s1) # OpenPath(s2)

\* C17 witness: two handles have files open at the same time, one of them the
\* file of the second item
C17_Witness ==
    /\ \E s1, s2 \in OpenSlots : s1 # s2
    /\ \E sl \in OpenSlots :
          OpenPath(sl) = <<"doc_", "0", "0", "2", ".txt">>

\* C18: the constructor returns an object only for num_tor_instances >=
\* curlmulti_handles_per_process > 0, so that no object has a number of crawler
\* processes of zero or less
C18_RangesValidated ==
    (mainpc \notin {"new", "raised"}) =>
        /\ argN >= argK
        /\ argK > 0
        /\ NumDownloaders(num_tor_instances, curlmulti_handles_per_process) > 0

\* C19: a kill() that crawl() has entered returns, whatever has become of the
\* tor processes since their launch
C19_KillReturns ==
    (mainpc = "kill") ~> (mainpc = "idle")

\* handles on a multi stack, and task_done calls owed, over the first n crawler
\* processes
RECURSIVE ActiveSlots(_)
ActiveSlots(n) ==
    IF n = 0 THEN 0 ELSE Cardinality(workers[n].multi) + ActiveSlots(n - 1)

RECURSIVE OwedDones(_)
OwedDones(n) ==
    IF n = 0 THEN 0 ELSE workers[n].owed + OwedDones(n - 1)

\* C20: the unfinished count is the items pending on the queue, plus the handles
\* on a multi stack over all crawler processes, plus the transfers reaped and not
\* yet notified; a transfer that is reaped and not yet notified has its handle
\* free and its file closed; and when urls_queue.join() can return or has
\* returned, every handle of every process is on its freelist with no file open
C20_Accounting ==
    /\ unfinished = Len(urls_queue) + ActiveSlots(Len(workers)) + OwedDones(Len(workers))
    /\ \A w \in Workers :
          LET wk == workers[w]
          IN /\ Cardinality(wk.multi) = Cardinality({c \in DOMAIN wk.fp : wk.fp[c] # 0})
             /\ \A i \in 1..Len(wk.reaped) : Holders(wk.reaped[i][1]) = {}
    /\ ((mainpc = "join" /\ JoinReturns(unfinished)) \/ mainpc = "kill") =>
          \A w \in Workers :
              /\ workers[w].multi = {}
              /\ \A c \in DOMAIN workers[w].fp : workers[w].fp[c] = 0
              /\ Len(workers[w].freelist) = curlmulti_handles_per_process

\* C20 witness: of two unfinished tasks one is in a handle of one crawler process
\* and the other is reaped and not yet notified in another process
C20_Witness ==
    /\ unfinished = 2
    /\ urls_queue = <<>>
    /\ \E w1, w2 \in Workers :
          /\ w1 # w2
          /\ workers[w1].multi # {}
          /\ workers[w2].owed > 0

====
